---- MODULE Spec2Model ----
(***************************************************************************)
(* Imperium Maledictum Shared Fate: the Fate / Ruin resource manager       *)
(* (fate-point-manager.mjs), the character-update hooks (module.mjs) and   *)
(* the settings they read (settings.mjs).                                  *)
(*                                                                         *)
(* The host (the virtual tabletop) owns the character records, the users   *)
(* and the settings store.  A call of one of the manager's operations is   *)
(* one action: the checks, the computation of the new value, the host's    *)
(* answer to the write (accepted or rejected), the preUpdateActor /        *)
(* updateActor hooks the accepted write triggers in every connected        *)
(* session, and the value returned to the caller.  What the caller and the *)
(* sessions observe of a call is kept in `result` and `update` until the   *)
(* caller takes it (Return).                                               *)
(*                                                                         *)
(* Spec          the manager's operations, the sheet edits, the settings   *)
(* SpecUI        the roster (ui-handler.mjs): rendering, the GM buttons    *)
(* SpecSettings  the settings form and the onChange callbacks              *)
(* SpecHooks     the host's events: fate updates, user edits, deletions    *)
(* SpecAsync     the click handlers and operations of two GM clients, one  *)
(*               step per stretch of code between two awaits               *)
(***************************************************************************)
EXTENDS Integers, FiniteSets, Sequences, TLC

\* ---------------------------------------------------------------- bounds
\* Largest maximum (fate.max, gmRuinMax) explored; the host may hold a
\* current value one above it.
MaxPoints == 2
\* Largest amount a caller passes.
MaxAmount == 2

Points == 0..MaxPoints
HostValues == 0..(MaxPoints + 1)
Amounts == 0..MaxAmount

\* ------------------------------------------------------ the host's world
GMs == {"gm1", "gm2"}
Players == {"p1", "p2", "p3", "p4"}
Users == GMs \cup Players
\* game.user of each connected client
Sessions == {"gm1", "p1", "p2"}
\* the GM clients whose handlers SpecAsync follows step by step
Racers == {"gm1", "gm2"}
\* a call that passes no user (undefined / null)
NoUser == "nobody"
Targets == Users \cup {NoUser}
NoActor == "none"
\* game.actors, in collection order
Actors == <<"c2", "c1", "c3", "n1">>
\* character actors whose system data holds a fate field
FateActors == {"c1", "c2"}
\* characters whose sheet is edited by hand in the explored runs
SheetActors == {"c1"}
ChatOptions == {"unset", "on", "off"}

VARIABLES
    fateValue,          \* system.fate.value of each character with fate data
    fateMax,            \* system.fate.max of each character with fate data
    gmRuin,             \* setting gmRuin
    gmRuinMax,          \* setting gmRuinMax
    allowPlayerUse,     \* setting allowPlayerUse
    showChatMessages,   \* setting showChatMessages
    showMaxFate,        \* setting showMaxFate of each client
    logLevel,           \* setting logLevel of each client
    result,             \* what the last call returned and did, until taken
    update,             \* what the last update or settings change triggered
    rendered,           \* the roster a client has just rendered, until taken
    task,               \* SpecAsync: where each followed client's handler is
    world               \* the users' assigned characters, the deleted actors

vars == <<fateValue, fateMax, gmRuin, gmRuinMax, allowPlayerUse,
          showChatMessages, showMaxFate, logLevel, result, update, rendered,
          task, world>>

\* the client-scope settings, the handlers followed step by step, the
\* host's users and actors
clientVars == <<showMaxFate, logLevel, task, world>>

actorType(a) ==
    IF a = "n1" THEN "npc" ELSE "character"

\* the actor assigned to each user in User Configuration, as the world
\* starts
assignedAtStart(u) ==
    CASE u = "p1" -> "c1"
      [] u = "p3" -> "n1"
      [] u = "p4" -> "c3"
      [] OTHER -> NoActor

\* user.character: the assigned actor, null once that actor is deleted
assigned(u) ==
    IF world.character[u] \in world.deleted THEN NoActor
    ELSE world.character[u]

\* game.actors: the actors not deleted, in collection order
gameActors == SelectSeq(Actors, LAMBDA a : a \notin world.deleted)

\* the players holding OWNER permission on an actor
owners(a) ==
    CASE a = "c1" -> {"p1"}
      [] a = "c2" -> {"p1", "p3"}
      [] a = "c3" -> {"p4"}
      [] OTHER -> {}

\* actor.hasPlayerOwner
hasPlayerOwner(a) == owners(a) # {}

\* actor.testUserPermission(user, "OWNER"): a GM passes every permission test
testUserPermission(a, user) == user \in GMs \/ user \in owners(a)

Max(a, b) == IF a >= b THEN a ELSE b
Min(a, b) == IF a <= b THEN a ELSE b
Abs(a) == IF a >= 0 THEN a ELSE 0 - a

NoResult ==
    [op |-> "none", s |-> NoUser, user |-> NoUser, amount |-> 0,
     ret |-> "none", notif |-> "none", logged |-> "none", wrote |-> "none",
     chat |-> "none", chatOpt |-> "unset",
     preFate |-> [a \in FateActors |-> 0], preRuin |-> 0,
     preFateMax |-> [a \in FateActors |-> 0], preRuinMax |-> 0]

NoUpdate ==
    [kind |-> "none", actor |-> NoActor, old |-> 0, new |-> 0,
     userId |-> NoUser, tracked |-> FALSE, senders |-> {}, failed |-> {},
     key |-> "none", setting |-> "none", changes |-> {}, refreshed |-> {}]

NoRoster ==
    [session |-> NoUser,
     rows |-> [u \in Users |->
                 [kind |-> "none", text |-> <<>>, classes |-> {},
                  handlers |-> FALSE, controls |-> FALSE]]]

\* a followed client whose handlers have all returned
NoTask ==
    [pc |-> "idle", op |-> "none", seen |-> 0, read |-> 0, stored |-> 0,
     newValue |-> 0, ret |-> "none", notif |-> "none"]

\* no call's outcome is waiting to be taken
idle ==
    /\ result.op = "none"
    /\ update.kind = "none"
    /\ rendered.session = NoUser

\* ------------------------------------------------------------- the manager
FateOps == {"useFate", "addFate", "removeFate"}
RuinOps == {"useRuin", "addRuin", "removeRuin"}
isGM(user) == user \in GMs

\* getPlayerCharacter with the permission test left out of the fallback search
getPlayerCharacterAnyOwned(user) ==
    IF user = NoUser THEN NoActor
    ELSE IF isGM(user) THEN NoActor
    ELSE IF assigned(user) # NoActor /\ actorType(assigned(user)) = "character"
         THEN assigned(user)
    ELSE LET owned == SelectSeq(gameActors, LAMBDA a :
                          /\ actorType(a) = "character"
                          /\ hasPlayerOwner(a))
         IN IF Len(owned) > 0 THEN Head(owned) ELSE NoActor

\* getPlayerCharacter searching the owned actors before the assignment
getPlayerCharacterOwnedFirst(user) ==
    IF user = NoUser THEN NoActor
    ELSE IF isGM(user) THEN NoActor
    ELSE LET owned == SelectSeq(gameActors, LAMBDA a :
                          /\ actorType(a) = "character"
                          /\ hasPlayerOwner(a)
                          /\ testUserPermission(a, user))
         IN IF Len(owned) > 0 THEN Head(owned)
            ELSE IF /\ assigned(user) # NoActor
                    /\ actorType(assigned(user)) = "character"
                 THEN assigned(user)
            ELSE NoActor

getPlayerCharacter(user) ==
    IF user = NoUser THEN NoActor
    ELSE IF isGM(user) THEN NoActor
    ELSE IF assigned(user) # NoActor /\ actorType(assigned(user)) = "character"
         THEN assigned(user)
    ELSE LET owned == SelectSeq(gameActors, LAMBDA a :
                          /\ actorType(a) = "character"
                          /\ hasPlayerOwner(a)
                          /\ testUserPermission(a, user))
         IN IF Len(owned) > 0 THEN Head(owned) ELSE NoActor

\* ok = FALSE stands for the null the code returns
getFatePoints(user) ==
    IF isGM(user) THEN [ok |-> FALSE, current |-> 0, max |-> 0]
    ELSE LET character == getPlayerCharacter(user) IN
         IF character = NoActor THEN [ok |-> FALSE, current |-> 0, max |-> 0]
         ELSE IF character \notin FateActors
              THEN [ok |-> FALSE, current |-> 0, max |-> 0]
         ELSE [ok |-> TRUE, current |-> fateValue[character],
               max |-> fateMax[character]]

getRuinPoints ==
    [current |-> gmRuin, max |-> gmRuinMax]

\* _canUseFate with the allowPlayerUse branch left out
_canUseFateIgnoresSetting(s, user) ==
    IF isGM(user) THEN FALSE
    ELSE user = s \/ isGM(s)

\* game.user is the session s
_canUseFate(s, user) ==
    IF isGM(user) THEN FALSE
    ELSE IF ~allowPlayerUse THEN isGM(s)
    ELSE user = s \/ isGM(s)

\* a balance check that only refuses an empty balance
insufficientOnlyEmpty(current, amount) == current <= 0 /\ amount > 0

\* the balance check of useRuin and useFate
insufficient(current, amount) == current < amount

\* a use that always spends one point
usedValueIgnoresAmount(current, amount) == Max(0, current - 1)
\* an add without the cap at max
addedValueUncapped(current, max, amount) == current + amount

\* the removal without the clamp at zero
removedValueUnclamped(current, amount) == current - amount

\* the new value each operation computes from the value it read
usedValue(current, amount) == Max(0, current - amount)
addedValue(current, max, amount) == Min(max, current + amount)
removedValue(current, amount) == Max(0, current - amount)

\* the chat option taken from the setting alone, whatever the caller passed
chatMessageOptionSettingOnly(chatOpt) == showChatMessages

\* options.chatMessage, defaulting to the showChatMessages setting
chatMessageOption(chatOpt) ==
    IF chatOpt = "unset" THEN showChatMessages ELSE chatOpt = "on"

\* sendFateChangeMessage taking a zero difference for an increase
sendFateChangeMessageNoZero(difference) ==
    IF difference >= 0 THEN "Chat.FateIncreased"
    ELSE "Chat.FateDecreased"

\* the locale key of the message, "none" where the function returns early
sendFateChangeMessage(difference) ==
    IF difference > 0 THEN "Chat.FateIncreased"
    ELSE IF difference < 0 THEN "Chat.FateDecreased"
    ELSE "none"

\* --------------------------------------------------------- event bindings
\* preUpdateActor: the options bag of the update (tracked = FALSE where the
\* hook returns before attaching _impmalSharedFate)
preUpdateActor(actor, touchesFateValue) ==
    IF actorType(actor) # "character"
    THEN [tracked |-> FALSE, oldFateValue |-> 0, actorId |-> NoActor]
    ELSE IF ~touchesFateValue
    THEN [tracked |-> FALSE, oldFateValue |-> 0, actorId |-> NoActor]
    ELSE [tracked |-> TRUE,
          oldFateValue |-> IF actor \in FateActors THEN fateValue[actor] ELSE 0,
          actorId |-> actor]

\* updateActor returning at once, without a refresh, when chat messages are
\* disabled
updateActorSilentNoRefresh(me, actor, options, userId, newValue, chatOk) ==
    IF ~options.tracked THEN "return"
    ELSE IF options.actorId # actor THEN "return"
    ELSE IF newValue = options.oldFateValue THEN "return"
    ELSE IF userId # me THEN "refresh"
    ELSE IF ~showChatMessages THEN "return"
    ELSE IF sendFateChangeMessage(newValue - options.oldFateValue) = "none"
         THEN "refresh"
    ELSE IF chatOk THEN "message"
    ELSE "failed"

\* updateActor without the test that this session made the update
updateActorEverySession(me, actor, options, userId, newValue, chatOk) ==
    IF ~options.tracked THEN "return"
    ELSE IF options.actorId # actor THEN "return"
    ELSE IF newValue = options.oldFateValue THEN "return"
    ELSE IF ~showChatMessages THEN "refresh"
    ELSE IF sendFateChangeMessage(newValue - options.oldFateValue) = "none"
         THEN "refresh"
    ELSE IF chatOk THEN "message"
    ELSE "failed"

\* updateActor in the session of user `me`, after the host has applied an
\* update made by userId that left the actor's fate value at newValue:
\*   "return"   the hook returns at once
\*   "refresh"  it only refreshes the roster
\*   "message"  it creates the chat message, then refreshes
\*   "failed"   the host rejects the chat message: the hook's promise rejects
updateActor(me, actor, options, userId, newValue, chatOk) ==
    IF ~options.tracked THEN "return"
    ELSE IF options.actorId # actor THEN "return"
    ELSE IF newValue = options.oldFateValue THEN "return"
    ELSE IF userId # me THEN "refresh"
    ELSE IF ~showChatMessages THEN "refresh"
    ELSE IF sendFateChangeMessage(newValue - options.oldFateValue) = "none"
         THEN "refresh"
    ELSE IF chatOk THEN "message"
    ELSE "failed"

\* the host broadcasts an applied update to every connected session
broadcast(actor, options, userId, newValue, chatOk) ==
    [kind |-> IF options.tracked THEN "value" ELSE "other",
     actor |-> actor,
     old |-> options.oldFateValue,
     new |-> newValue,
     userId |-> userId,
     tracked |-> options.tracked,
     senders |-> {me \in Sessions :
                 updateActor(me, actor, options, userId, newValue, chatOk)
                     = "message"},
     failed |-> {me \in Sessions :
                 updateActor(me, actor, options, userId, newValue, chatOk)
                     = "failed"},
     key |-> IF \E me \in Sessions :
                  updateActor(me, actor, options, userId, newValue, chatOk)
                      = "message"
             THEN sendFateChangeMessage(newValue - options.oldFateValue)
             ELSE "none",
     setting |-> "none",
     changes |-> IF options.tracked THEN {"system.fate.value"}
                 ELSE {"system.fate.max"},
     refreshed |-> {me \in Sessions :
                   updateActor(me, actor, options, userId, newValue, chatOk)
                       \in {"refresh", "message"}}]

\* the update written to every character that holds fate data
characterUpdateEveryActor(s, actor, newValue, accept, chatOk) ==
    LET options == preUpdateActor(actor, TRUE) IN
    IF accept
    THEN /\ fateValue' = [a \in FateActors |-> newValue]
         /\ update' = broadcast(actor, options, s, newValue, chatOk)
    ELSE /\ UNCHANGED fateValue
         /\ update' = NoUpdate

\* character.update({"system.fate.value": newValue}) by session s
characterUpdate(s, actor, newValue, accept, chatOk) ==
    LET options == preUpdateActor(actor, TRUE) IN
    IF accept
    THEN /\ fateValue' = [fateValue EXCEPT ![actor] = newValue]
         /\ update' = broadcast(actor, options, s, newValue, chatOk)
    ELSE /\ UNCHANGED fateValue
         /\ update' = NoUpdate

\* what a call did and returned, with the values stored when it was made
Outcome(op, s, user, amount, ret, notif, logged, wrote, chat, chatOpt) ==
    [op |-> op, s |-> s, user |-> user, amount |-> amount,
     ret |-> ret, notif |-> notif, logged |-> logged,
     wrote |-> wrote, chat |-> chat, chatOpt |-> chatOpt,
     preFate |-> fateValue, preRuin |-> gmRuin,
     preFateMax |-> fateMax, preRuinMax |-> gmRuinMax]

Reply(op, s, user, amount, ret, notif, logged, wrote, chat) ==
    result' = Outcome(op, s, user, amount, ret, notif, logged, wrote, chat,
                      "unset")

\* a call of a Ruin operation, which reads options.chatMessage
ReplyRuin(op, s, amount, ret, notif, logged, wrote, chat, chatOpt) ==
    result' = Outcome(op, s, NoUser, amount, ret, notif, logged, wrote, chat,
                      chatOpt)

\* an operation that returns before any write
Refuse(op, s, user, amount, ret, notif) ==
    /\ Reply(op, s, user, amount, ret, notif, "none", "none", "none")
    /\ UNCHANGED <<clientVars, rendered,
                   fateValue, fateMax, gmRuin, gmRuinMax, allowPlayerUse,
                   showChatMessages, update>>

\* the Fate write followed by a chat message of the operation's own
\* (_sendFateChatMessage), next to the one of the updateActor hook
fateWriteOwnMessage(op, s, user, amount, character, newValue) ==
    \E accept \in BOOLEAN, chatOk \in BOOLEAN :
        /\ characterUpdate(s, character, newValue, accept, chatOk)
        /\ IF accept
           THEN Reply(op, s, user, amount, "true", "none", "info", "stored",
                      IF showChatMessages THEN "used" ELSE "none")
           ELSE Reply(op, s, user, amount, "false", "UpdateFailed", "error",
                      "rejected", "none")
        /\ UNCHANGED <<clientVars, rendered,
                       fateMax, gmRuin, gmRuinMax, allowPlayerUse,
                       showChatMessages>>

\* the try / catch around the character update of the three Fate operations
fateWrite(op, s, user, amount, character, newValue) ==
    \E accept \in BOOLEAN, chatOk \in BOOLEAN :
        /\ characterUpdate(s, character, newValue, accept, chatOk)
        /\ IF accept
           THEN Reply(op, s, user, amount, "true", "none", "info", "stored",
                      "none")
           ELSE Reply(op, s, user, amount, "false", "UpdateFailed", "error",
                      "rejected", "none")
        /\ UNCHANGED <<clientVars, rendered,
                       fateMax, gmRuin, gmRuinMax, allowPlayerUse,
                       showChatMessages>>

\* a Ruin operation that returns before any write
RefuseRuin(op, s, amount, notif, chatOpt) ==
    /\ ReplyRuin(op, s, amount, "false", notif, "none", "none", "none",
                 chatOpt)
    /\ UNCHANGED <<clientVars, rendered,
                   fateValue, fateMax, gmRuin, gmRuinMax, allowPlayerUse,
                   showChatMessages, update>>

\* the settings write without the catch: a rejected write throws
ruinWriteRethrows(op, tag, s, amount, newValue, chatMessage, chatOpt) ==
    \E accept \in BOOLEAN, chatOk \in BOOLEAN :
        /\ IF ~accept
           THEN /\ UNCHANGED gmRuin
                /\ ReplyRuin(op, s, amount, "throws", "none", "none",
                             "rejected", "none", chatOpt)
           ELSE /\ gmRuin' = newValue
                /\ IF chatMessage /\ ~chatOk
                   THEN ReplyRuin(op, s, amount, "false", "UpdateFailed",
                                  "error", "stored", "none", chatOpt)
                   ELSE ReplyRuin(op, s, amount, "true", "none", "info",
                                  "stored", IF chatMessage THEN tag ELSE "none",
                                  chatOpt)
        /\ UNCHANGED <<clientVars, rendered,
                       fateValue, fateMax, gmRuinMax, allowPlayerUse,
                       showChatMessages, update>>

\* the try / catch around the settings write of the three Ruin operations
ruinWrite(op, tag, s, amount, newValue, chatMessage, chatOpt) ==
    \E accept \in BOOLEAN, chatOk \in BOOLEAN :
        /\ IF ~accept
           THEN /\ UNCHANGED gmRuin
                /\ ReplyRuin(op, s, amount, "false", "UpdateFailed",
                             "error", "rejected", "none", chatOpt)
           ELSE /\ gmRuin' = newValue
                /\ IF chatMessage /\ ~chatOk
                   THEN ReplyRuin(op, s, amount, "false", "UpdateFailed",
                                  "error", "stored", "none", chatOpt)
                   ELSE ReplyRuin(op, s, amount, "true", "none", "info",
                                  "stored", IF chatMessage THEN tag ELSE "none",
                                  chatOpt)
        /\ UNCHANGED <<clientVars, rendered,
                       fateValue, fateMax, gmRuinMax, allowPlayerUse,
                       showChatMessages, update>>

useRuin(s, amount, chatOpt) ==
    /\ idle
    /\ LET chatMessage == chatMessageOption(chatOpt) IN
       IF ~isGM(s) THEN RefuseRuin("useRuin", s, amount, "GMOnly", chatOpt)
       ELSE LET ruinData == getRuinPoints IN
            IF insufficient(ruinData.current, amount)
            THEN RefuseRuin("useRuin", s, amount, "InsufficientRuin", chatOpt)
            ELSE ruinWrite("useRuin", "used", s, amount,
                           usedValue(ruinData.current, amount), chatMessage,
                           chatOpt)

\* addRuin without the GM check
addRuinNoGMCheck(s, amount, chatOpt) ==
    /\ idle
    /\ LET chatMessage == chatMessageOption(chatOpt) IN
       LET ruinData == getRuinPoints IN
       ruinWrite("addRuin", "added", s, amount,
                 addedValue(ruinData.current, ruinData.max, amount),
                 chatMessage, chatOpt)

addRuin(s, amount, chatOpt) ==
    /\ idle
    /\ LET chatMessage == chatMessageOption(chatOpt) IN
       IF ~isGM(s) THEN RefuseRuin("addRuin", s, amount, "GMOnly", chatOpt)
       ELSE LET ruinData == getRuinPoints IN
            ruinWrite("addRuin", "added", s, amount,
                      addedValue(ruinData.current, ruinData.max, amount),
                      chatMessage, chatOpt)

removeRuin(s, amount, chatOpt) ==
    /\ idle
    /\ LET chatMessage == chatMessageOption(chatOpt) IN
       IF ~isGM(s) THEN RefuseRuin("removeRuin", s, amount, "GMOnly", chatOpt)
       ELSE LET ruinData == getRuinPoints IN
            ruinWrite("removeRuin", "removed", s, amount,
                      removedValue(ruinData.current, amount), chatMessage,
                      chatOpt)

useFate(s, user, amount) ==
    /\ idle
    /\ IF user = NoUser
       \* _canUseFate reads user.isGM: a TypeError, before the try block
       THEN Refuse("useFate", s, user, amount, "throws", "none")
       ELSE IF ~_canUseFate(s, user)
       THEN Refuse("useFate", s, user, amount, "false", "CannotUseFate")
       ELSE LET character == getPlayerCharacter(user) IN
            IF character = NoActor
            THEN Refuse("useFate", s, user, amount, "false", "NoCharacter")
            ELSE LET fatePoints == getFatePoints(user) IN
                 IF ~fatePoints.ok \/ insufficient(fatePoints.current, amount)
                 THEN Refuse("useFate", s, user, amount, "false",
                             "InsufficientFate")
                 ELSE fateWrite("useFate", s, user, amount, character,
                                usedValue(fatePoints.current, amount))

addFate(s, user, amount) ==
    /\ idle
    /\ IF ~isGM(s) THEN Refuse("addFate", s, user, amount, "false", "GMOnly")
       ELSE LET character == getPlayerCharacter(user) IN
            IF character = NoActor
            THEN Refuse("addFate", s, user, amount, "false", "NoCharacter")
            ELSE LET fatePoints == getFatePoints(user) IN
                 IF ~fatePoints.ok
                 THEN Refuse("addFate", s, user, amount, "false", "NoFateData")
                 ELSE fateWrite("addFate", s, user, amount, character,
                                addedValue(fatePoints.current, fatePoints.max,
                                           amount))

removeFate(s, user, amount) ==
    /\ idle
    /\ IF ~isGM(s) THEN Refuse("removeFate", s, user, amount, "false", "GMOnly")
       ELSE LET character == getPlayerCharacter(user) IN
            IF character = NoActor
            THEN Refuse("removeFate", s, user, amount, "false", "NoCharacter")
            ELSE LET fatePoints == getFatePoints(user) IN
                 IF ~fatePoints.ok
                 THEN Refuse("removeFate", s, user, amount, "false",
                             "NoFateData")
                 ELSE fateWrite("removeFate", s, user, amount, character,
                                removedValue(fatePoints.current, amount))

\* FatePointManager.sendFateChangeMessage called on its own
callSendFateChangeMessage(s, difference) ==
    /\ idle
    /\ \E chatOk \in BOOLEAN :
         LET key == sendFateChangeMessage(difference) IN
         IF key = "none"
         THEN Reply("sendFateChangeMessage", s, NoUser, Abs(difference),
                    "returns", "none", "none", "none", "none")
         ELSE IF chatOk
         THEN Reply("sendFateChangeMessage", s, NoUser, Abs(difference),
                    "returns", "none", "none", "none", key)
         ELSE Reply("sendFateChangeMessage", s, NoUser, Abs(difference),
                    "throws", "none", "none", "none", "none")
    /\ UNCHANGED <<clientVars, rendered,
                   fateValue, fateMax, gmRuin, gmRuinMax, allowPlayerUse,
                   showChatMessages, update>>

\* ------------------------------------------------------------ environment
\* a user edits a character sheet's fate value by hand
sheetEditValue(s, actor, value) ==
    /\ idle
    /\ testUserPermission(actor, s)
    /\ \E chatOk \in BOOLEAN :
         characterUpdate(s, actor, value, TRUE, chatOk)
    /\ UNCHANGED <<clientVars, rendered,
                   fateMax, gmRuin, gmRuinMax, allowPlayerUse,
                   showChatMessages, result>>

\* a user edits a character sheet's fate maximum: the change does not hold
\* system.fate.value
sheetEditMax(s, actor, max) ==
    /\ idle
    /\ testUserPermission(actor, s)
    /\ fateMax[actor] # max
    /\ fateMax' = [fateMax EXCEPT ![actor] = max]
    /\ update' = broadcast(actor, preUpdateActor(actor, FALSE), s,
                           fateValue[actor], TRUE)
    /\ UNCHANGED <<clientVars, rendered,
                   fateValue, gmRuin, gmRuinMax, allowPlayerUse,
                   showChatMessages, result>>

\* ------------------------------------------------- users and actors change
\* the users whose record is edited and the actors that are assigned or
\* deleted in the explored runs
EditedUsers == {"p2", "p3"}
AssignableActors == {NoActor, "c1", "c2"}
DeletableActors == {"c2", "n1"}
UserChanges == {{"name"}, {"character"}, {"name", "character"}}

\* the updateUser hook: whether it refreshes the roster
updateUser(changes) == "character" \in changes

\* the host applies an edit of a user record and runs the updateUser hook
\* in every session
userUpdate(user, changes, character) ==
    /\ idle
    /\ "character" \in changes => world.character[user] # character
    /\ world' = IF "character" \in changes
                THEN [world EXCEPT !.character[user] = character]
                ELSE world
    /\ update' = [NoUpdate EXCEPT
                    !.kind = "user",
                    !.changes = changes,
                    !.refreshed = IF updateUser(changes) THEN Sessions
                                  ELSE {}]
    /\ UNCHANGED <<fateValue, fateMax, gmRuin, gmRuinMax, allowPlayerUse,
                   showChatMessages, showMaxFate, logLevel, result, rendered,
                   task>>

\* the host deletes an actor and runs the deleteActor hook, a refresh, in
\* every session
actorDelete(actor) ==
    /\ idle
    /\ actor \notin world.deleted
    /\ world' = [world EXCEPT !.deleted = @ \cup {actor}]
    /\ update' = [NoUpdate EXCEPT !.kind = "delete",
                                  !.actor = actor,
                                  !.refreshed = Sessions]
    /\ UNCHANGED <<fateValue, fateMax, gmRuin, gmRuinMax, allowPlayerUse,
                   showChatMessages, showMaxFate, logLevel, result, rendered,
                   task>>

\* ---------------------------------------------------------------- settings
Levels == {"none", "error", "warn", "info", "debug"}
WorldSettings == {"gmRuin", "gmRuinMax", "allowPlayerUse", "showChatMessages"}
ClientSettings == {"showMaxFate", "logLevel"}

\* registerSettings with no onChange callback on any setting
settingOnChangeNone(key) == FALSE

\* registerSettings: the settings registered with onChange: () => refresh()
settingOnChange(key) ==
    key \in {"gmRuin", "gmRuinMax", "showMaxFate", "allowPlayerUse"}

\* the clients in which the host runs the onChange callback of a changed
\* setting: every client for a world setting, the changing client for a
\* client setting; the callback calls UIHandler.refresh()
settingChanged(key, s) ==
    [NoUpdate EXCEPT !.kind = "setting",
                     !.setting = key,
                     !.userId = s,
                     !.refreshed = IF ~settingOnChange(key) THEN {}
                                   ELSE IF key \in ClientSettings THEN {s}
                                   ELSE Sessions]

\* the settings form
setGmRuinMax(max) ==
    /\ idle
    /\ gmRuinMax # max
    /\ gmRuinMax' = max
    /\ update' = settingChanged("gmRuinMax", NoUser)
    /\ UNCHANGED <<clientVars, rendered,
                   fateValue, fateMax, gmRuin, allowPlayerUse,
                   showChatMessages, result>>

setAllowPlayerUse(value) ==
    /\ idle
    /\ allowPlayerUse # value
    /\ allowPlayerUse' = value
    /\ update' = settingChanged("allowPlayerUse", NoUser)
    /\ UNCHANGED <<clientVars, rendered,
                   fateValue, fateMax, gmRuin, gmRuinMax, showChatMessages,
                   result>>

setShowChatMessages(value) ==
    /\ idle
    /\ showChatMessages # value
    /\ showChatMessages' = value
    /\ update' = settingChanged("showChatMessages", NoUser)
    /\ UNCHANGED <<clientVars, rendered,
                   fateValue, fateMax, gmRuin, gmRuinMax, allowPlayerUse,
                   result>>

setShowMaxFate(s, value) ==
    /\ idle
    /\ showMaxFate[s] # value
    /\ showMaxFate' = [showMaxFate EXCEPT ![s] = value]
    /\ update' = settingChanged("showMaxFate", s)
    /\ UNCHANGED <<fateValue, fateMax, gmRuin, gmRuinMax, allowPlayerUse,
                   showChatMessages, logLevel, result, rendered, task, world>>

setLogLevel(s, level) ==
    /\ idle
    /\ logLevel[s] # level
    /\ logLevel' = [logLevel EXCEPT ![s] = level]
    /\ update' = settingChanged("logLevel", s)
    /\ UNCHANGED <<fateValue, fateMax, gmRuin, gmRuinMax, allowPlayerUse,
                   showChatMessages, showMaxFate, result, rendered, task,
                   world>>

\* ------------------------------------------------------------- the roster
NoBadge ==
    [kind |-> "none", text |-> <<>>, classes |-> {}, handlers |-> FALSE,
     controls |-> FALSE]

\* the badge text that shows the maximum whatever showMaxFate says
textContentAlwaysMax(showMax, current, max) == <<current, max>>

\* valueDisplay.textContent: `${current}/${max}` or current.toString(),
\* as the numbers it shows
textContent(showMax, current, max) ==
    IF showMax THEN <<current, max>> ELSE <<current>>

\* the availability classes added by two independent tests
availabilityIndependent(current, max) ==
    (IF current = 0 THEN {"exhausted"} ELSE {})
        \cup (IF current = max THEN {"full"} ELSE {})

\* the if / else if that styles a badge by availability
availability(current, max) ==
    IF current = 0 THEN {"exhausted"}
    ELSE IF current = max THEN {"full"}
    ELSE {}

\* _canInteractWithFate without the allowPlayerUse test
_canInteractWithFateIgnoresSetting(me, targetUser) ==
    IF isGM(me) THEN TRUE
    ELSE targetUser = me

_canInteractWithFate(me, targetUser) ==
    IF isGM(me) THEN TRUE
    ELSE IF ~allowPlayerUse THEN FALSE
    ELSE targetUser = me

_addRuinDisplay(me, user) ==
    LET ruinData == getRuinPoints
        canInteract == isGM(me) /\ user = me
        canUse == canInteract /\ ruinData.current > 0
    IN [kind |-> "ruin",
        text |-> textContent(showMaxFate[me], ruinData.current, ruinData.max),
        classes |-> (IF canUse THEN {"interactive"} ELSE {})
                        \cup availability(ruinData.current, ruinData.max),
        handlers |-> canInteract,
        controls |-> canInteract]

_addFateDisplay(me, user, fateData) ==
    LET canInteract == _canInteractWithFate(me, user)
        canUse == canInteract /\ fateData.current > 0
    IN [kind |-> "fate",
        text |-> textContent(showMaxFate[me], fateData.current, fateData.max),
        classes |-> (IF canUse THEN {"interactive"} ELSE {})
                        \cup availability(fateData.current, fateData.max),
        handlers |-> canUse \/ isGM(me),
        controls |-> isGM(me)]

\* the renderPlayers hook in the client of user `me`
onRenderPlayers(me) ==
    /\ idle
    /\ rendered' =
         [session |-> me,
          rows |-> [user \in Users |->
                      IF isGM(user) THEN _addRuinDisplay(me, user)
                      ELSE LET fateData == getFatePoints(user) IN
                           IF fateData.ok
                           THEN _addFateDisplay(me, user, fateData)
                           ELSE NoBadge]]
    /\ UNCHANGED <<fateValue, fateMax, gmRuin, gmRuinMax, allowPlayerUse,
                   showChatMessages, showMaxFate, logLevel, result, update,
                   task, world>>

\* a plain click on the Fate badge of a user, confirmed in the dialog: the
\* handler returns with no effect unless the badge shows a point and
\* _canInteractWithFate agrees, then calls useFate(user)
_onFateClick(s, user) ==
    /\ ~isGM(user)
    /\ getFatePoints(user).ok
    /\ getFatePoints(user).current > 0
    /\ _canInteractWithFate(s, user)
    /\ useFate(s, user, 1)

\* the + and - buttons of the GM controls
ruinAddButton(s) == isGM(s) /\ addRuin(s, 1, "unset")
ruinRemoveButton(s) == isGM(s) /\ removeRuin(s, 1, "unset")
fateAddButton(s, user) ==
    isGM(s) /\ ~isGM(user) /\ getFatePoints(user).ok /\ addFate(s, user, 1)
fateRemoveButton(s, user) ==
    isGM(s) /\ ~isGM(user) /\ getFatePoints(user).ok
        /\ removeFate(s, user, 1)

\* the caller takes the returned value; the sessions are done with the update
Return ==
    /\ ~idle
    /\ result' = NoResult
    /\ update' = NoUpdate
    /\ rendered' = NoRoster
    /\ UNCHANGED <<clientVars,
                   fateValue, fateMax, gmRuin, gmRuinMax, allowPlayerUse,
                   showChatMessages>>

Init ==
    /\ fateMax \in [FateActors -> Points]
    /\ \A a \in FateActors \ SheetActors : fateMax[a] = 1
    /\ fateValue \in [FateActors -> Points]
    /\ \A a \in FateActors : fateValue[a] <= fateMax[a]
    /\ gmRuinMax \in Points
    /\ gmRuin = 0
    /\ allowPlayerUse = TRUE
    /\ showChatMessages = TRUE
    /\ showMaxFate = [s \in Sessions |-> TRUE]
    /\ logLevel = [s \in Sessions |-> "warn"]
    /\ result = NoResult
    /\ update = NoUpdate
    /\ rendered = NoRoster
    /\ task = [s \in Racers |-> NoTask]
    /\ world = [character |-> [u \in Users |-> assignedAtStart(u)],
                deleted |-> {}]

Next ==
    \/ \E s \in Sessions, amount \in Amounts, chatOpt \in ChatOptions :
         useRuin(s, amount, chatOpt)
    \/ \E s \in Sessions, amount \in Amounts, chatOpt \in ChatOptions :
         addRuin(s, amount, chatOpt)
    \/ \E s \in Sessions, amount \in Amounts, chatOpt \in ChatOptions :
         removeRuin(s, amount, chatOpt)
    \/ \E s \in Sessions, user \in Targets, amount \in Amounts :
         useFate(s, user, amount)
    \/ \E s \in Sessions, user \in Targets, amount \in Amounts :
         addFate(s, user, amount)
    \/ \E s \in Sessions, user \in Targets, amount \in Amounts :
         removeFate(s, user, amount)
    \/ \E s \in Sessions, difference \in {-1, 0, 1} :
         callSendFateChangeMessage(s, difference)
    \/ \E s \in Sessions, actor \in SheetActors, value \in HostValues :
         sheetEditValue(s, actor, value)
    \/ \E s \in Sessions, actor \in SheetActors, max \in Points :
         sheetEditMax(s, actor, max)
    \/ \E max \in Points : setGmRuinMax(max)
    \/ \E value \in BOOLEAN : setAllowPlayerUse(value)
    \/ \E value \in BOOLEAN : setShowChatMessages(value)
    \/ Return

Spec == Init /\ [][Next]_vars

\* The roster: the clients render it, the GM uses the + and - buttons, the
\* settings it reads change, the sheets are edited.
NextUI ==
    \/ \E me \in Sessions : onRenderPlayers(me)
    \/ \E s \in Sessions, user \in Users : _onFateClick(s, user)
    \/ \E s \in Sessions : ruinAddButton(s)
    \/ \E s \in Sessions : ruinRemoveButton(s)
    \/ \E s \in Sessions, user \in Users : fateAddButton(s, user)
    \/ \E s \in Sessions, user \in Users : fateRemoveButton(s, user)
    \/ \E s \in Sessions, actor \in SheetActors, value \in HostValues :
         sheetEditValue(s, actor, value)
    \/ \E s \in Sessions, actor \in SheetActors, max \in Points :
         sheetEditMax(s, actor, max)
    \/ \E s \in Sessions, value \in BOOLEAN : setShowMaxFate(s, value)
    \/ \E max \in Points : setGmRuinMax(max)
    \/ \E value \in BOOLEAN : setAllowPlayerUse(value)
    \/ Return

SpecUI == Init /\ [][NextUI]_vars

\* The settings form alone, over one stored set of characters.
InitSettings ==
    /\ Init
    /\ fateMax = [a \in FateActors |-> 1]
    /\ fateValue = [a \in FateActors |-> 1]

NextSettings ==
    \/ \E max \in Points : setGmRuinMax(max)
    \/ \E value \in BOOLEAN : setAllowPlayerUse(value)
    \/ \E value \in BOOLEAN : setShowChatMessages(value)
    \/ \E s \in Sessions, value \in BOOLEAN : setShowMaxFate(s, value)
    \/ \E s \in Sessions, level \in Levels : setLogLevel(s, level)
    \/ Return

SpecSettings == InitSettings /\ [][NextSettings]_vars

\* The host's events the module listens to: updates of a character's fate
\* value, edits of user records, deletions of actors.
NextHooks ==
    \/ \E s \in Sessions, actor \in SheetActors, value \in HostValues :
         sheetEditValue(s, actor, value)
    \/ \E s \in Sessions, actor \in SheetActors, max \in Points :
         sheetEditMax(s, actor, max)
    \/ \E value \in BOOLEAN : setShowChatMessages(value)
    \/ \E user \in EditedUsers, changes \in UserChanges,
          character \in AssignableActors :
         userUpdate(user, changes, character)
    \/ \E actor \in DeletableActors : actorDelete(actor)
    \/ Return

SpecHooks == Init /\ [][NextHooks]_vars

\* ------------------------------------------------- across the suspensions
\* The handlers of the GM clients in Racers, one step per stretch of code
\* between two awaits: the click handler up to its confirmation dialog, the
\* operation up to its awaited write, the host applying the write, the
\* handler returning.  The steps of different clients interleave; the
\* operations are called as the roster calls them (amount 1, no options),
\* the Fate operations on the user AsyncUser.
AsyncUser == "p1"
UseOps == {"useRuin", "useFate"}
CallOps == {"addRuin", "removeRuin", "addFate", "removeFate"}

asyncFrame ==
    <<fateMax, gmRuinMax, allowPlayerUse, showChatMessages, showMaxFate,
      logLevel, result, update, rendered, world>>

\* getRuinPoints() / getFatePoints(user) as read now
currentOf(op) ==
    IF op \in RuinOps THEN getRuinPoints.current
    ELSE getFatePoints(AsyncUser).current

maxOf(op) ==
    IF op \in RuinOps THEN getRuinPoints.max
    ELSE getFatePoints(AsyncUser).max

\* the operation computing from the value its click handler read before
\* the confirmation dialog
operationReadStale(seen, current) == seen

\* the value an operation computes from: the one it reads itself, after
\* any dialog, whatever the click handler saw before
operationRead(seen, current) == current

\* a host that applies a write as a difference to what it stores
settledValueAsDifference(stored, read, newValue) == stored + (newValue - read)

\* the host stores the value of the write it applies: the last write wins
settledValue(stored, read, newValue) == newValue

computed(op, read, max) ==
    IF op \in UseOps THEN usedValue(read, 1)
    ELSE IF op \in {"addRuin", "addFate"} THEN addedValue(read, max, 1)
    ELSE removedValue(read, 1)

\* an operation from its call to its first await
begin(s, op, seen) ==
    LET read == operationRead(seen, currentOf(op))
        unauthorized == op = "useFate" /\ ~_canUseFate(s, AsyncUser)
        refused == unauthorized \/ (op \in UseOps /\ insufficient(read, 1))
    IN /\ task' = [task EXCEPT ![s] =
                     IF refused
                     THEN [pc |-> "done", op |-> op, seen |-> seen,
                           read |-> read, stored |-> currentOf(op),
                           newValue |-> read, ret |-> "false",
                           notif |-> IF unauthorized THEN "CannotUseFate"
                                     ELSE IF op = "useFate"
                                     THEN "InsufficientFate"
                                     ELSE "InsufficientRuin"]
                     ELSE [pc |-> "write", op |-> op, seen |-> seen,
                           read |-> read, stored |-> currentOf(op),
                           newValue |-> computed(op, read, maxOf(op)),
                           ret |-> "none", notif |-> "none"]]
       /\ UNCHANGED <<fateValue, gmRuin>>
       /\ UNCHANGED asyncFrame

\* the click handler opening the dialog whatever the badge shows
onBadgeClickNoBalanceTest(s, op) ==
    /\ task[s].pc = "idle"
    /\ task' = [task EXCEPT ![s] =
                  [NoTask EXCEPT !.pc = "dialog", !.op = op,
                                 !.seen = currentOf(op)]]
    /\ UNCHANGED <<fateValue, gmRuin>>
    /\ UNCHANGED asyncFrame

\* _onRuinClick / _onFateClick without ctrl: up to the confirmation dialog,
\* or to the return when there is no point to use or no right to use it
onBadgeClick(s, op) ==
    /\ task[s].pc = "idle"
    /\ task' = [task EXCEPT ![s] =
                  IF \/ currentOf(op) <= 0
                     \/ op = "useFate" /\ ~_canInteractWithFate(s, AsyncUser)
                  THEN [NoTask EXCEPT !.pc = "done", !.op = op,
                                      !.seen = currentOf(op)]
                  ELSE [NoTask EXCEPT !.pc = "dialog", !.op = op,
                                      !.seen = currentOf(op)]]
    /\ UNCHANGED <<fateValue, gmRuin>>
    /\ UNCHANGED asyncFrame

\* the dialog answered no: the handler returns
confirmNo(s) ==
    /\ task[s].pc = "dialog"
    /\ task' = [task EXCEPT ![s] = NoTask]
    /\ UNCHANGED <<fateValue, gmRuin>>
    /\ UNCHANGED asyncFrame

\* the dialog answered yes: the handler calls useRuin() / useFate(user)
confirmYes(s) ==
    /\ task[s].pc = "dialog"
    /\ begin(s, task[s].op, task[s].seen)

\* ctrl+click, ctrl+right-click, the + and - buttons
callOperation(s, op) ==
    /\ task[s].pc = "idle"
    /\ begin(s, op, currentOf(op))

\* the host answers the awaited write, then the operation runs to its
\* return
hostSettle(s) ==
    /\ task[s].pc = "write"
    /\ \E accept \in BOOLEAN, chatOk \in BOOLEAN :
         LET t == task[s]
             value == settledValue(currentOf(t.op), t.read, t.newValue)
         IN /\ IF ~accept THEN UNCHANGED <<fateValue, gmRuin>>
               ELSE IF t.op \in RuinOps
               THEN gmRuin' = value /\ UNCHANGED fateValue
               ELSE /\ fateValue' =
                         [fateValue EXCEPT
                            ![getPlayerCharacter(AsyncUser)] = value]
                    /\ UNCHANGED gmRuin
            /\ task' = [task EXCEPT ![s] =
                          LET ok == /\ accept
                                    /\ \/ t.op \in FateOps
                                       \/ ~showChatMessages
                                       \/ chatOk
                          IN [t EXCEPT !.pc = "done",
                                       !.ret = IF ok THEN "true" ELSE "false",
                                       !.notif = IF ok THEN "none"
                                                 ELSE "UpdateFailed"]]
    /\ UNCHANGED asyncFrame

handlerReturns(s) ==
    /\ task[s].pc = "done"
    /\ task' = [task EXCEPT ![s] = NoTask]
    /\ UNCHANGED <<fateValue, gmRuin>>
    /\ UNCHANGED asyncFrame

\* a write by someone else that the host has applied: a sheet edit
otherWriter(value) ==
    /\ fateValue[getPlayerCharacter(AsyncUser)] # value
    /\ fateValue' = [fateValue EXCEPT ![getPlayerCharacter(AsyncUser)] = value]
    /\ UNCHANGED <<gmRuin, task>>
    /\ UNCHANGED asyncFrame

InitAsync ==
    /\ Init
    /\ fateMax[getPlayerCharacter(AsyncUser)] = MaxPoints
    /\ \A a \in FateActors \ SheetActors : fateValue[a] = 1
    /\ gmRuinMax = MaxPoints

NextAsync ==
    \/ \E s \in Racers, op \in UseOps : onBadgeClick(s, op)
    \/ \E s \in Racers : confirmNo(s)
    \/ \E s \in Racers : confirmYes(s)
    \/ \E s \in Racers, op \in CallOps : callOperation(s, op)
    \/ \E s \in Racers : hostSettle(s)
    \/ \E s \in Racers : handlerReturns(s)
    \/ \E value \in Points : otherWriter(value)

SpecAsync == InitAsync /\ [][NextAsync]_vars

\* ------------------------------------------------------------- properties

\* the character a Fate operation acted on
target == getPlayerCharacter(result.user)

\* the stored Fate and Ruin values are those of before the call
Untouched == fateValue = result.preFate /\ gmRuin = result.preRuin

\* a user no character resolves for: a GM, or a player with no assigned and
\* no owned actor
NoResolvableCharacter(u) ==
    \/ u \in GMs
    \/ /\ u \in Players
       /\ assigned(u) = NoActor
       /\ \A i \in 1..Len(Actors) : u \notin owners(Actors[i])

\* C1: a use whose write the host stored leaves current = max(0, old - amount),
\* never negative, for every amount >= 0 and every 0 <= old <= max.
C1_UseWritesDifference ==
    /\ (/\ result.op = "useRuin"
        /\ result.wrote = "stored"
        /\ result.amount >= 0
        /\ 0 <= result.preRuin /\ result.preRuin <= gmRuinMax)
       => /\ gmRuin = Max(0, result.preRuin - result.amount)
          /\ gmRuin >= 0
    /\ (/\ result.op = "useFate"
        /\ result.wrote = "stored"
        /\ result.amount >= 0
        /\ 0 <= result.preFate[target]
        /\ result.preFate[target] <= fateMax[target])
       => /\ fateValue[target]
               = Max(0, result.preFate[target] - result.amount)
          /\ fateValue[target] >= 0

C1_Witness ==
    /\ result.op = "useFate"
    /\ result.ret = "true"
    /\ result.user = "p1"
    /\ result.amount = 1
    /\ result.preFate["c1"] = 2
    /\ fateMax["c1"] = 2
    /\ fateValue["c1"] = 1

\* C2: an add whose write the host stored leaves current = min(max, old +
\* amount); after any add from 0 <= old <= max the stored value is <= max.
C2_AddWritesCappedSum ==
    /\ (/\ result.op = "addRuin"
        /\ isGM(result.s)
        /\ 0 <= result.preRuin /\ result.preRuin <= gmRuinMax)
       => /\ gmRuin <= gmRuinMax
          /\ result.wrote = "stored"
               => gmRuin = Min(gmRuinMax, result.preRuin + result.amount)
    /\ (/\ result.op = "addFate"
        /\ result.wrote # "none"
        /\ 0 <= result.preFate[target]
        /\ result.preFate[target] <= fateMax[target])
       => /\ fateValue[target] <= fateMax[target]
          /\ result.wrote = "stored"
               => fateValue[target]
                    = Min(fateMax[target],
                          result.preFate[target] + result.amount)

C2_Witness ==
    /\ result.op = "addFate"
    /\ result.ret = "true"
    /\ result.user = "p1"
    /\ result.amount = 2
    /\ result.preFate["c1"] = 2
    /\ fateMax["c1"] = 2
    /\ fateValue["c1"] = 2

\* C3: a use of more than the current balance returns false, writes nothing
\* and leaves Fate and Ruin as they were; the actor who passes the checks
\* before the balance check is warned InsufficientRuin / InsufficientFate.
C3_UseBeyondBalanceFails ==
    /\ (result.op = "useRuin" /\ result.amount > result.preRuin)
       => /\ result.ret = "false"
          /\ result.wrote = "none"
          /\ Untouched
          /\ isGM(result.s) => result.notif = "InsufficientRuin"
    /\ (/\ result.op = "useFate"
        /\ target \in FateActors
        /\ result.amount > result.preFate[target])
       => /\ result.ret = "false"
          /\ result.wrote = "none"
          /\ Untouched
          /\ update.kind = "none"
          /\ (isGM(result.s) \/ (result.s = result.user /\ allowPlayerUse))
               => result.notif = "InsufficientFate"

C3_Witness ==
    /\ result.op = "useRuin"
    /\ result.s = "gm1"
    /\ result.amount = 1
    /\ result.preRuin = 0
    /\ gmRuin = 0
    /\ result.ret = "false"
    /\ result.notif = "InsufficientRuin"

\* C4: a Fate operation on a user with no resolvable character returns false
\* for every session and setting, and writes no character and no setting.
C4_NoCharacterFails ==
    (result.op \in FateOps /\ NoResolvableCharacter(result.user))
    => /\ result.ret = "false"
       /\ result.wrote = "none"
       /\ Untouched
       /\ update.kind = "none"

C4_Witness ==
    /\ result.op = "addFate"
    /\ result.s = "gm1"
    /\ result.user = "p2"
    /\ result.ret = "false"
    /\ result.notif = "NoCharacter"

\* C5: called from a session that is not a GM, addFate, removeFate, addRuin,
\* removeRuin and useRuin return false with the GMOnly warning and change
\* neither a character's Fate nor the Ruin setting.
C5_NonGMRefused ==
    (/\ result.op \in {"addFate", "removeFate", "addRuin", "removeRuin",
                       "useRuin"}
     /\ result.s \notin GMs)
    => /\ result.ret = "false"
       /\ result.notif = "GMOnly"
       /\ result.wrote = "none"
       /\ Untouched
       /\ update.kind = "none"

C5_Witness ==
    /\ result.op = "addRuin"
    /\ result.s = "p1"
    /\ result.amount = 1
    /\ result.preRuin < gmRuinMax
    /\ result.ret = "false"
    /\ result.notif = "GMOnly"

\* C6: useFate on a player T from session A is refused as unauthorized
\* exactly when A is no GM and (A is not T or allowPlayerUse is off); an
\* authorized use of a character holding at least the amount reaches the write.
C6_UseFateAuthorization ==
    (result.op = "useFate" /\ result.user \in Players)
    => LET permitted == \/ result.s \in GMs
                        \/ result.s = result.user /\ allowPlayerUse
       IN /\ (result.notif = "CannotUseFate") <=> ~permitted
          /\ ~permitted => (result.ret = "false" /\ result.wrote = "none"
                            /\ Untouched)
          /\ (/\ permitted
              /\ target \in FateActors
              /\ result.preFate[target] >= result.amount)
             => result.wrote # "none"

C6_Witness ==
    /\ result.op = "useFate"
    /\ ~allowPlayerUse
    /\ result.s = "gm1"
    /\ result.user = "p1"
    /\ result.amount = 1
    /\ result.ret = "true"
    /\ fateValue["c1"] = result.preFate["c1"] - 1

\* C7: an update that leaves the fate value at its snapshot creates no chat
\* message in any session; sendFateChangeMessage with difference 0 creates none.
C7_ZeroDifferenceSilent ==
    /\ (update.tracked /\ update.new = update.old)
       => (update.senders = {} /\ update.failed = {})
    /\ (result.op = "sendFateChangeMessage" /\ result.amount = 0)
       => result.chat = "none"

C7_Witness ==
    /\ update.kind = "value"
    /\ update.tracked
    /\ update.new = update.old
    /\ update.userId = "p1"
    /\ showChatMessages
    /\ update.senders = {}

\* C8 as stated: every update with a non-zero difference creates exactly one
\* chat message across the sessions (stated here for the updates during which
\* the host rejects no chat message, so that a refutation rests on the module
\* alone).
C8_ExactlyOneMessage ==
    (update.tracked /\ update.new # update.old /\ update.failed = {})
    => Cardinality(update.senders) = 1

\* C8 as amended: for an update with a non-zero difference only the session of
\* the updating user creates a message, so at most one is created: it is
\* attempted exactly when showChatMessages is on, and created unless the host
\* rejects it.
C8_AtMostOneMessageByWriter ==
    (update.tracked /\ update.new # update.old)
    => /\ update.senders \subseteq {update.userId}
       /\ update.failed \subseteq {update.userId}
       /\ Cardinality(update.senders) + Cardinality(update.failed)
            = (IF showChatMessages THEN 1 ELSE 0)

C8_Witness ==
    /\ update.tracked
    /\ update.new # update.old
    /\ update.userId = "gm1"
    /\ result.op = "removeFate"
    /\ update.senders = {"gm1"}
    /\ Cardinality(Sessions) > 1

\* C9 as stated: every value the module stores as a current value lies
\* between 0 and the resource's max.
C9_WritesWithinBounds ==
    /\ (result.op \in RuinOps /\ result.wrote = "stored")
       => (0 <= gmRuin /\ gmRuin <= gmRuinMax)
    /\ (result.op \in FateOps /\ result.wrote = "stored")
       => (0 <= fateValue[target] /\ fateValue[target] <= fateMax[target])

\* C10: an operation whose write the host rejects returns false, notifies
\* UpdateFailed, logs at level error, and throws nothing.
C10_RejectedWriteFailsSoft ==
    (result.op \in FateOps \cup RuinOps /\ result.wrote = "rejected")
    => /\ result.ret = "false"
       /\ result.notif = "UpdateFailed"
       /\ result.logged = "error"
       /\ Untouched

C10_Witness ==
    /\ result.op = "useRuin"
    /\ result.wrote = "rejected"
    /\ result.amount = 1
    /\ result.preRuin = 1
    /\ result.ret = "false"

\* the tag of the chat message each Ruin operation sends
ruinTag(op) ==
    CASE op = "useRuin" -> "used"
      [] op = "addRuin" -> "added"
      [] op = "removeRuin" -> "removed"
      [] OTHER -> "none"

\* C11: a Ruin operation that returns true has created exactly one Ruin chat
\* message, tagged used / added / removed after the operation, when chat is
\* on for the call (options.chatMessage if passed, else showChatMessages)
\* and none when it is off; a Ruin operation that fails has created none.
C11_RuinChatOnSuccess ==
    result.op \in RuinOps
    => LET on == IF result.chatOpt = "unset" THEN showChatMessages
                 ELSE result.chatOpt = "on"
       IN /\ result.ret = "true"
             => result.chat = (IF on THEN ruinTag(result.op) ELSE "none")
          /\ result.ret # "true" => result.chat = "none"

C11_Witness ==
    /\ result.op = "useRuin"
    /\ result.ret = "true"
    /\ result.chatOpt = "on"
    /\ ~showChatMessages
    /\ result.chat = "used"
    /\ gmRuin = result.preRuin - 1

\* C12: useFate creates no chat message of its own.  The message for a
\* successful use comes from the updateActor hook, in the session that made
\* the write and in no other: one message when the value changed, chat
\* messages are enabled and the host accepts the message, none when they
\* are disabled; the operation never adds a second one.
C12_UseFateMessageFromHookOnly ==
    result.op = "useFate"
    => /\ result.chat = "none"
       /\ update.senders \subseteq {result.s}
       /\ (/\ result.wrote = "stored"
           /\ showChatMessages
           /\ fateValue[target] # result.preFate[target]
           /\ update.failed = {})
          => (update.senders = {result.s} /\ update.key = "Chat.FateDecreased")
       /\ ~showChatMessages => update.senders = {}
       /\ result.wrote # "stored" => update.senders = {}

C12_Witness ==
    /\ result.op = "useFate"
    /\ result.s = "p1"
    /\ result.user = "p1"
    /\ result.amount = 1
    /\ result.preFate["c1"] = 2
    /\ fateValue["c1"] = 1
    /\ result.ret = "true"
    /\ result.chat = "none"
    /\ update.senders = {"p1"}

\* the stored current / max a rendered badge of user u stands for
shownCurrent(u) ==
    IF isGM(u) THEN gmRuin ELSE fateValue[getPlayerCharacter(u)]
shownMax(u) ==
    IF isGM(u) THEN gmRuinMax ELSE fateMax[getPlayerCharacter(u)]

\* C13: the availability class of every rendered Fate and Ruin badge is
\* fixed by (current, max): exhausted exactly when current is 0, full
\* exactly when current equals max and is not 0, neither otherwise; a
\* badge never carries both, current = max = 0 included.
C13_BadgeClassByAvailability ==
    rendered.session # NoUser
    => \A u \in Users :
         LET badge == rendered.rows[u] IN
         badge.kind # "none"
         => /\ "exhausted" \in badge.classes <=> shownCurrent(u) = 0
            /\ "full" \in badge.classes
                 <=> (shownCurrent(u) = shownMax(u) /\ shownCurrent(u) # 0)
            /\ ~({"exhausted", "full"} \subseteq badge.classes)

C13_Witness ==
    /\ rendered.session = "p1"
    /\ gmRuin = 0
    /\ gmRuinMax = 0
    /\ rendered.rows["gm1"].kind = "ruin"
    /\ rendered.rows["gm1"].classes = {"exhausted"}
    /\ rendered.rows["p1"].kind = "fate"
    /\ "full" \in rendered.rows["p1"].classes

StoredPoints == <<fateValue, fateMax, gmRuin, gmRuinMax>>

\* C14: a change of showMaxFate leaves every stored Fate and Ruin current
\* and max as it was, and so does a render; a badge rendered in a client
\* shows current and max when that client's showMaxFate is on and current
\* alone when it is off.
C14_ShowMaxOnlyChangesText ==
    [][/\ showMaxFate' # showMaxFate => UNCHANGED StoredPoints
       /\ rendered'.session # NoUser
          => /\ UNCHANGED StoredPoints
             /\ \A u \in Users :
                  LET badge == rendered'.rows[u] IN
                  badge.kind # "none"
                  => badge.text =
                       (IF showMaxFate[rendered'.session]
                        THEN <<shownCurrent(u), shownMax(u)>>
                        ELSE <<shownCurrent(u)>>)]_vars

C14_Witness ==
    /\ rendered.session = "p1"
    /\ ~showMaxFate["p1"]
    /\ showMaxFate["gm1"]
    /\ fateMax["c1"] = 2
    /\ fateValue["c1"] = 1
    /\ rendered.rows["p1"].text = <<1>>

\* C15 as stated: a change of any of gmRuinMax, showMaxFate,
\* allowPlayerUse, showChatMessages and logLevel refreshes the roster
\* through the setting's onChange callback.
C15_EverySettingRefreshes ==
    (/\ update.kind = "setting"
     /\ update.setting \in {"gmRuinMax", "showMaxFate", "allowPlayerUse",
                             "showChatMessages", "logLevel"})
    => update.refreshed # {}

\* C15: a change of gmRuinMax or allowPlayerUse refreshes the roster in
\* every client and a change of showMaxFate refreshes it in the client that
\* changed it, through the setting's onChange callback; a change of
\* showChatMessages or logLevel refreshes no roster.
C15_RefreshBySettingsWithCallback ==
    update.kind = "setting"
    => /\ update.setting \in {"gmRuinMax", "allowPlayerUse"}
          => update.refreshed = Sessions
       /\ update.setting = "showMaxFate"
          => update.refreshed = {update.userId}
       /\ update.setting \in {"showChatMessages", "logLevel"}
          => update.refreshed = {}

C15_Witness ==
    /\ update.kind = "setting"
    /\ update.setting = "showMaxFate"
    /\ update.userId = "p1"
    /\ ~showMaxFate["p1"]
    /\ update.refreshed = {"p1"}
    /\ logLevel["p2"] = "debug"

\* the character actors a user holds Owner permission on
OwnedCharacters(u) ==
    {Actors[i] : i \in {j \in 1..Len(Actors) :
                           /\ actorType(Actors[j]) = "character"
                           /\ u \in owners(Actors[j])}}

AssignedCharacter(u) ==
    assigned(u) # NoActor /\ actorType(assigned(u)) = "character"

\* C16: the character a GM's addFate / removeFate acts on for a user is
\* none when the user is a GM; else the assigned character when the
\* assignment is of type character; else a character actor the user holds
\* Owner permission on; else none.  The assignment takes precedence over
\* ownership.
C16_CharacterResolutionOrder ==
    (/\ result.op \in {"addFate", "removeFate"}
     /\ isGM(result.s)
     /\ result.user # NoUser)
    => LET u == result.user IN
       /\ result.notif = "NoCharacter"
          <=> (isGM(u) \/ (~AssignedCharacter(u) /\ OwnedCharacters(u) = {}))
       /\ result.wrote = "stored"
          => IF AssignedCharacter(u) THEN update.actor = assigned(u)
             ELSE update.actor \in OwnedCharacters(u)

C16_Witness ==
    /\ result.op = "addFate"
    /\ result.user = "p1"
    /\ result.wrote = "stored"
    /\ update.actor = "c1"
    /\ assigned("p1") = "c1"
    /\ "c2" \in OwnedCharacters("p1")
    /\ Head(Actors) = "c2"

\* C17: a Ruin operation leaves every character's fate value and fate max
\* as they were; a Fate operation leaves gmRuin, gmRuinMax and every fate
\* max as they were and changes no fate value other than that of the
\* character resolved for its target user.
C17_ResourcesIsolated ==
    /\ result.op \in RuinOps
       => (fateValue = result.preFate /\ fateMax = result.preFateMax)
    /\ result.op \in FateOps
       => /\ gmRuin = result.preRuin
          /\ gmRuinMax = result.preRuinMax
          /\ fateMax = result.preFateMax
          /\ \A a \in FateActors :
               a # target => fateValue[a] = result.preFate[a]

C17_Witness ==
    /\ result.op = "removeFate"
    /\ result.user = "p3"
    /\ result.preFate["c2"] = 1
    /\ fateValue["c2"] = 0
    /\ result.preFate["c1"] = 2
    /\ fateValue["c1"] = 2
    /\ gmRuin = 1
    /\ gmRuinMax = 2

\* C18: a removal by a GM of more than the current value is not refused:
\* it reaches the write, a stored write leaves the value at 0, and the call
\* returns true unless the host rejects the write or the chat message
\* (UpdateFailed); a use of more than the current value fails before any
\* write.
C18_RemovalSaturates ==
    /\ (/\ result.op = "removeRuin"
        /\ isGM(result.s)
        /\ result.amount > result.preRuin)
       => /\ result.wrote # "none"
          /\ result.wrote = "stored" => gmRuin = 0
          /\ result.ret = "true" \/ result.notif = "UpdateFailed"
    /\ (/\ result.op = "removeFate"
        /\ isGM(result.s)
        /\ target \in FateActors
        /\ result.amount > result.preFate[target])
       => /\ result.wrote # "none"
          /\ result.wrote = "stored" => fateValue[target] = 0
          /\ result.wrote = "stored" => result.ret = "true"
          /\ result.ret = "true" \/ result.notif = "UpdateFailed"
    /\ (/\ result.op = "useRuin"
        /\ isGM(result.s)
        /\ result.amount > result.preRuin)
       => (result.ret = "false" /\ result.wrote = "none")

C18_Witness ==
    /\ result.op = "removeRuin"
    /\ result.s = "gm1"
    /\ result.amount = 2
    /\ result.preRuin = 1
    /\ result.ret = "true"
    /\ gmRuin = 0

\* C19: whenever an operation has issued its write and awaits the host,
\* the value it computed from is the value that was stored at the instant
\* the write was issued, and the value it writes is computed from that one:
\* the operation never computes from what was read before an earlier
\* suspension (the confirmation dialog).
C19_ReadAndWriteInOneContinuation ==
    \A s \in Racers :
        task[s].pc = "write"
        => /\ task[s].read = task[s].stored
           /\ task[s].newValue
                = computed(task[s].op, task[s].stored, maxOf(task[s].op))

C19_Witness ==
    /\ task["gm1"].pc = "write"
    /\ task["gm1"].op = "useFate"
    /\ task["gm1"].seen = 2
    /\ task["gm1"].read = 1
    /\ task["gm1"].newValue = 0
    /\ task["gm2"].pc = "write"

\* C20: when two GM clients have each run addRuin(1) from the same stored
\* value c with c + 2 <= max and both have returned true, the stored value
\* is c + 1, one increment short, and lies between 0 and max.
C20_LostUpdate ==
    (/\ \A s \in Racers : /\ task[s].pc = "done"
                          /\ task[s].op = "addRuin"
                          /\ task[s].ret = "true"
     /\ task["gm1"].read = task["gm2"].read
     /\ task["gm1"].read + 2 <= gmRuinMax)
    => /\ gmRuin = task["gm1"].read + 1
       /\ 0 <= gmRuin
       /\ gmRuin <= gmRuinMax

C20_Witness ==
    /\ \A s \in Racers : /\ task[s].pc = "done"
                         /\ task[s].op = "addRuin"
                         /\ task[s].ret = "true"
                         /\ task[s].read = 0
                         /\ task[s].newValue = 1
    /\ gmRuinMax >= 2
    /\ gmRuin = 1

\* C21 as stated: every edit of a user record, every deletion of an actor
\* and every update that changed a character's fate value refreshes the
\* roster in every session that observes it.
C21_EveryEventRefreshes ==
    /\ update.kind \in {"user", "delete"} => update.refreshed = Sessions
    /\ (/\ update.kind = "value"
        /\ update.new # update.old
        /\ update.failed = {})
       => update.refreshed = Sessions

\* C21: an edit of a user record refreshes the roster in every session when
\* it changes the character assignment and in none otherwise; a deletion of
\* an actor refreshes it in every session; an update that changed a
\* character's fate value refreshes it in every session other than the
\* updating one, and in the updating one when chat messages are disabled or
\* after its chat message is created; an updating session whose chat
\* message is rejected does not refresh.
C21_RefreshOnObservedEvents ==
    /\ update.kind = "user"
       => update.refreshed
            = (IF "character" \in update.changes THEN Sessions ELSE {})
    /\ update.kind = "delete" => update.refreshed = Sessions
    /\ (update.kind = "value" /\ update.new # update.old)
       => /\ Sessions \ {update.userId} \subseteq update.refreshed
          /\ update.refreshed = Sessions \ update.failed
          /\ update.senders \subseteq update.refreshed
          /\ ~showChatMessages => update.refreshed = Sessions

C21_Witness ==
    /\ update.kind = "value"
    /\ update.new # update.old
    /\ update.userId = "p1"
    /\ update.senders = {"p1"}
    /\ update.refreshed = Sessions
    /\ world.deleted = {"c2"}
    /\ world.character["p2"] = "c1"

\* C22: for every acting session, every value of allowPlayerUse and every
\* non-GM target user, _canInteractWithFate and _canUseFate give the same
\* answer; a rendered Fate badge that shows a point is offered for use
\* exactly when useFate would authorize the use, and a use started from
\* the badge is never rejected as unauthorized.
C22_InteractAgreesWithCanUse ==
    /\ \A me \in Sessions, u \in Players :
         _canInteractWithFate(me, u) <=> _canUseFate(me, u)
    /\ rendered.session # NoUser
       => \A u \in Players :
            (rendered.rows[u].kind = "fate" /\ shownCurrent(u) > 0)
            => ("interactive" \in rendered.rows[u].classes
                  <=> _canUseFate(rendered.session, u))
    /\ result.op = "useFate" => result.notif # "CannotUseFate"

C22_Witness ==
    /\ rendered.session = "p1"
    /\ ~allowPlayerUse
    /\ rendered.rows["p1"].kind = "fate"
    /\ shownCurrent("p1") > 0
    /\ "interactive" \notin rendered.rows["p1"].classes
    /\ ~_canUseFate("p1", "p1")

\* C23: a plain click on a badge opens the confirmation dialog only when
\* the badge shows a point; the step that closes the dialog writes nothing
\* itself, a declined dialog ends the handler, and a use is issued only
\* from an accepted dialog, computed from the balance read after it: when
\* that balance is 0 the use fails with nothing written.  No stored value
\* is ever negative.
C23_SpendOnlyAfterConfirmation ==
    /\ [](gmRuin >= 0 /\ \A a \in FateActors : fateValue[a] >= 0)
    /\ [][\A s \in Racers :
            /\ (task[s].pc # "dialog" /\ task'[s].pc = "dialog")
               => (task[s].pc = "idle" /\ currentOf(task'[s].op) > 0)
            /\ (/\ task[s].pc = "idle"
                /\ task'[s].pc # "idle"
                /\ task'[s].op \in UseOps)
               => /\ UNCHANGED <<fateValue, gmRuin>>
                  /\ task'[s].pc = "dialog" <=> currentOf(task'[s].op) > 0
            /\ (task[s].pc = "dialog" /\ task'[s].pc # "dialog")
               => /\ UNCHANGED <<fateValue, gmRuin>>
                  /\ task'[s].pc \in {"idle", "write", "done"}
                  /\ task'[s].pc = "write"
                     => /\ currentOf(task[s].op) >= 1
                        /\ task'[s].newValue = currentOf(task[s].op) - 1
                  /\ (task'[s].pc # "idle" /\ currentOf(task[s].op) <= 0)
                     => (task'[s].pc = "done" /\ task'[s].ret = "false")
            /\ (/\ task[s].pc # "write"
                /\ task'[s].pc = "write"
                /\ task'[s].op \in UseOps)
               => task[s].pc = "dialog"]_vars

C23_Witness ==
    /\ task["gm1"].pc = "done"
    /\ task["gm1"].op = "useFate"
    /\ task["gm1"].seen = 1
    /\ task["gm1"].read = 0
    /\ task["gm1"].ret = "false"
    /\ task["gm1"].notif = "InsufficientFate"
    /\ fateValue[getPlayerCharacter(AsyncUser)] = 0

\* C24 as stated: whenever useRuin, addRuin or removeRuin returns false, the
\* stored Ruin value equals its value before the call.
C24_FalseLeavesRuinUnchanged ==
    (result.op \in RuinOps /\ result.ret = "false")
    => gmRuin = result.preRuin

====
